---- MODULE Spec2Model ----
(***************************************************************************)
(* Model of the terminal-state half of the Term crate (src/src/unix.rs):   *)
(* the line-discipline attributes of the device behind standard input, the *)
(* Terminal value that snapshots them, the three attribute operations      *)
(* (set_term, set_raw, set_flags), the two session toggles and term_size;  *)
(* and of its colour half (src/src/color.rs): Color values and the SGR      *)
(* escape strings Foreground and Background render them to.                *)
(***************************************************************************)
EXTENDS Integers, Sequences, FiniteSets, TLC

VARIABLES
    dev,      \* termios attributes currently held by the device on stdin
    readOK,   \* tcgetattr on stdin succeeds (stdin is a terminal)
    writeOK,  \* tcsetattr on stdin succeeds
    TERM,     \* the TERM environment variable: [set, val]
    term,     \* the program's session Terminal (the target of the toggles)
    out,      \* escapes written to standard output, in order
    calls,    \* one record per completed call, oldest first
    paint,    \* the last colour rendered: constructor call, value, string
    thr       \* the threads running set_flags: position and local termios

vars == <<dev, readOK, writeOK, TERM, term, out, calls, paint, thr>>

----------------------------------------------------------------------------
(* Bounds of the exploration. *)

\* Calls in one run of the full program.
MaxCalls == 2

\* Calls in one run of the session toggles alone.
MaxToggles == 6

\* Calls in one run of nested raw-mode sessions.
MaxNested == 6

\* Calls in one run of raw mode, restoration and toggles together.
MaxRestore == 4

----------------------------------------------------------------------------
(* Program constants. *)

NCCS == 32

ISIG == 1
ICANON == 2
ECHO == 8
OPOST == 1
IXON == 1024

VTIME == 5
VMIN == 6

\* `a & !m` on tcflag_t: every bit of a that is set in m is cleared.
RECURSIVE AndNot(_, _)
AndNot(a, m) ==
    IF a = 0 THEN 0
    ELSE (IF m % 2 = 1 THEN 0 ELSE a % 2) + 2 * AndNot(a \div 2, m \div 2)

RECURSIVE BitOr(_, _)
BitOr(a, b) ==
    IF a = 0 THEN b
    ELSE IF b = 0 THEN a
    ELSE (IF a % 2 = 1 \/ b % 2 = 1 THEN 1 ELSE 0) + 2 * BitOr(a \div 2, b \div 2)

----------------------------------------------------------------------------
(* Values. *)

\* Option<T>
None == [some |-> FALSE, v |-> 0]
Some(x) == [some |-> TRUE, v |-> x]

\* [0; NCCS]
ZeroCc == [i \in 0..(NCCS - 1) |-> 0]

\* A control-character table as a terminal driver hands it out: the first
\* slots hold the editing characters, the rest are zero.
CcTable(intr, quit, erase, kill, eof, time, min) ==
    [i \in 0..(NCCS - 1) |->
        CASE i = 0 -> intr
          [] i = 1 -> quit
          [] i = 2 -> erase
          [] i = 3 -> kill
          [] i = 4 -> eof
          [] i = VTIME -> time
          [] i = VMIN -> min
          [] OTHER -> 0]

\* libc::termios
Termios(i, o, c, l, line, cc, isp, osp) ==
    [c_iflag |-> i, c_oflag |-> o, c_cflag |-> c, c_lflag |-> l,
     c_line |-> line, c_cc |-> cc, c_ispeed |-> isp, c_ospeed |-> osp]

\* Attribute states the device may start in: cooked terminals with two
\* different control-character tables and speeds, a terminal that is already
\* raw, and partially raw ones. Besides the five bits set_raw clears, the
\* flag words carry other bits (ECHOE 16, IEXTEN 32768, ICRNL 256, ONLCR 4).
DevStates ==
    { Termios(1280, 5, 191, 32795, 0, CcTable(3, 28, 127, 21, 4, 0, 1), 15, 15),
      Termios(1280, 5, 2237, 32795, 1, CcTable(3, 28, 8, 24, 4, 5, 0), 13, 15),
      Termios(256, 4, 191, 32784, 0, CcTable(3, 28, 127, 21, 4, 0, 1), 15, 15),
      Termios(1024, 1, 191, 10, 0, CcTable(0, 0, 127, 21, 4, 1, 1), 15, 13),
      Termios(256, 5, 2237, 32787, 0, CcTable(3, 28, 127, 21, 4, 0, 1), 13, 13),
      Termios(0, 0, 0, 0, 0, ZeroCc, 0, 0) }

\* What a termios left uninitialized may hold when it is read.
Uninit ==
    { Termios(0, 0, 0, 0, 0, ZeroCc, 0, 0),
      Termios(1029, 7, 48, 43, 2, CcTable(1, 2, 3, 4, 5, 6, 7), 1, 2) }

\* Values of the TERM environment variable.
TermEnvs == { [set |-> FALSE, val |-> ""], [set |-> TRUE, val |-> "xterm-256color"] }

\* Window sizes the device behind standard output may report.
WinSizes == { [ws_col |-> c, ws_row |-> r] : c \in {0, 1, 80}, r \in {0, 24} }

\* Outcomes of the window-size query: it succeeds and reports a size, or fails.
WinQueries ==
    { [ok |-> TRUE, ws |-> w] : w \in WinSizes }
        \cup { [ok |-> FALSE, ws |-> [ws_col |-> 0, ws_row |-> 0]] }

\* Flag words a caller passes to set_flags.
LflagArgs == {None, Some(ICANON + ECHO)}
IflagArgs == {None, Some(IXON)}
OflagArgs == {None, Some(0)}
CflagArgs == {None, Some(176)}

----------------------------------------------------------------------------
(* libc calls. *)

\* tcgetattr(stdin, &mut t): on success t receives the device attributes,
\* on failure t keeps what it held.
tcgetattr(ok, d, t) == IF ok THEN [res |-> 0, t |-> d] ELSE [res |-> -1, t |-> t]

\* tcsetattr(stdin, TCSANOW, &t): the device attributes after the call.
tcsetattr(ok, d, t) == IF ok THEN t ELSE d

\* ioctl(stdout, TIOCGWINSZ, &mut size)
ioctl_winsz(ok, ws, size) == IF ok THEN [res |-> 0, size |-> ws] ELSE [res |-> -1, size |-> size]

\* std::env::var("TERM")
env_var(e) == IF e.set THEN [ok |-> TRUE, v |-> e.val] ELSE [ok |-> FALSE, v |-> ""]

----------------------------------------------------------------------------
(* impl Default for Terminal *)

\* Default building the snapshot from t whatever tcgetattr returned.
Terminal_default_ignores_res(ok, d, e, uninit) ==
    LET t == tcgetattr(ok, d, uninit).t
        name == IF env_var(e).ok THEN env_var(e).v ELSE ""
    IN  [term_name |-> name,
         c_iflags |-> t.c_iflag,
         c_oflags |-> t.c_oflag,
         c_lflags |-> t.c_lflag,
         c_cflags |-> t.c_cflag,
         c_line |-> t.c_line,
         c_cc |-> t.c_cc,
         c_ispeed |-> t.c_ispeed,
         c_ospeed |-> t.c_ospeed,
         alt_buffer |-> FALSE,
         cursor_visable |-> TRUE]

\* Default capturing the device only when TERM is set.
Terminal_default_needs_term(ok, d, e, uninit) ==
    LET r == tcgetattr(ok, d, uninit)
        t == r.t
        known == r.res = 0 /\ env_var(e).ok
        name == IF env_var(e).ok THEN env_var(e).v ELSE ""
    IN  [term_name |-> name,
         c_iflags |-> IF known THEN t.c_iflag ELSE 0,
         c_oflags |-> IF known THEN t.c_oflag ELSE 0,
         c_lflags |-> IF known THEN t.c_lflag ELSE 0,
         c_cflags |-> IF known THEN t.c_cflag ELSE 0,
         c_line |-> IF known THEN t.c_line ELSE 0,
         c_cc |-> IF known THEN t.c_cc ELSE ZeroCc,
         c_ispeed |-> IF known THEN t.c_ispeed ELSE 0,
         c_ospeed |-> IF known THEN t.c_ospeed ELSE 0,
         alt_buffer |-> FALSE,
         cursor_visable |-> TRUE]

\* Default with the input speed copied from the output speed.
Terminal_default_one_speed(ok, d, e, uninit) ==
    LET r == tcgetattr(ok, d, uninit)
        t == r.t
        name == IF env_var(e).ok THEN env_var(e).v ELSE ""
    IN  [term_name |-> name,
         c_iflags |-> IF r.res = 0 THEN t.c_iflag ELSE 0,
         c_oflags |-> IF r.res = 0 THEN t.c_oflag ELSE 0,
         c_lflags |-> IF r.res = 0 THEN t.c_lflag ELSE 0,
         c_cflags |-> IF r.res = 0 THEN t.c_cflag ELSE 0,
         c_line |-> IF r.res = 0 THEN t.c_line ELSE 0,
         c_cc |-> IF r.res = 0 THEN t.c_cc ELSE ZeroCc,
         c_ispeed |-> IF r.res = 0 THEN t.c_ospeed ELSE 0,
         c_ospeed |-> IF r.res = 0 THEN t.c_ospeed ELSE 0,
         alt_buffer |-> FALSE,
         cursor_visable |-> TRUE]

Terminal_default(ok, d, e, uninit) ==
    LET r == tcgetattr(ok, d, uninit)
        t == r.t
        res == r.res
        name == IF env_var(e).ok THEN env_var(e).v ELSE ""
    IN  IF res = 0
        THEN [term_name |-> name,
              c_iflags |-> t.c_iflag,
              c_oflags |-> t.c_oflag,
              c_lflags |-> t.c_lflag,
              c_cflags |-> t.c_cflag,
              c_line |-> t.c_line,
              c_cc |-> t.c_cc,
              c_ispeed |-> t.c_ispeed,
              c_ospeed |-> t.c_ospeed,
              alt_buffer |-> FALSE,
              cursor_visable |-> TRUE]
        ELSE [term_name |-> name,
              c_iflags |-> 0,
              c_oflags |-> 0,
              c_lflags |-> 0,
              c_cflags |-> 0,
              c_line |-> 0,
              c_cc |-> ZeroCc,
              c_ispeed |-> 0,
              c_ospeed |-> 0,
              alt_buffer |-> FALSE,
              cursor_visable |-> TRUE]

\* cast_to_termios with the control and local flag groups crossed.
cast_to_termios_crossed(self) ==
    [c_cc |-> self.c_cc,
     c_cflag |-> self.c_lflags,
     c_lflag |-> self.c_cflags,
     c_iflag |-> self.c_iflags,
     c_oflag |-> self.c_oflags,
     c_line |-> self.c_line,
     c_ispeed |-> self.c_ispeed,
     c_ospeed |-> self.c_ospeed]

\* Terminal::cast_to_termios
cast_to_termios(self) ==
    [c_cc |-> self.c_cc,
     c_cflag |-> self.c_cflags,
     c_lflag |-> self.c_lflags,
     c_iflag |-> self.c_iflags,
     c_oflag |-> self.c_oflags,
     c_line |-> self.c_line,
     c_ispeed |-> self.c_ispeed,
     c_ospeed |-> self.c_ospeed]

----------------------------------------------------------------------------
(* The free functions, as functions of the device and their arguments.     *)
(* Each yields the value returned and the device attributes left behind.   *)

\* set_term writing back the snapshot it has just captured.
set_term_fn_writes_original(rok, wok, d, e, uninit, t) ==
    LET original == Terminal_default(rok, d, e, uninit)
    IN  [ret |-> original, dev |-> tcsetattr(wok, d, cast_to_termios(original))]

\* set_term returning the Terminal it was given.
set_term_fn_returns_arg(rok, wok, d, e, uninit, t) ==
    [ret |-> t, dev |-> tcsetattr(wok, d, cast_to_termios(t))]

\* pub fn set_term(t: Terminal) -> Terminal
set_term_fn(rok, wok, d, e, uninit, t) ==
    LET original == Terminal_default(rok, d, e, uninit)
    IN  [ret |-> original, dev |-> tcsetattr(wok, d, cast_to_termios(t))]

\* The masking of set_raw with ISIG left out of the local-flag mask.
raw_termios_keeps_isig(t) ==
    [t EXCEPT !.c_lflag = AndNot(t.c_lflag, BitOr(ICANON, ECHO)),
              !.c_iflag = AndNot(t.c_iflag, IXON),
              !.c_oflag = AndNot(t.c_oflag, OPOST)]

\* The masking of set_raw written with ^= : the five bits are flipped.
raw_termios_flips(t) ==
    [t EXCEPT !.c_lflag = BitOr(AndNot(t.c_lflag, BitOr(BitOr(ICANON, ECHO), ISIG)),
                                AndNot(BitOr(BitOr(ICANON, ECHO), ISIG), t.c_lflag)),
              !.c_iflag = BitOr(AndNot(t.c_iflag, IXON), AndNot(IXON, t.c_iflag)),
              !.c_oflag = BitOr(AndNot(t.c_oflag, OPOST), AndNot(OPOST, t.c_oflag))]

\* The three masking assignments of set_raw.
raw_termios(t) ==
    [t EXCEPT !.c_lflag = AndNot(t.c_lflag, BitOr(BitOr(ICANON, ECHO), ISIG)),
              !.c_iflag = AndNot(t.c_iflag, IXON),
              !.c_oflag = AndNot(t.c_oflag, OPOST)]

\* set_raw capturing its return value after masking instead of before.
set_raw_fn_returns_raw(rok, wok, d, e, uninit) ==
    LET termios == raw_termios(tcgetattr(rok, d, uninit).t)
        t == Terminal_default(rok, termios, e, uninit)
    IN  [ret |-> t, dev |-> tcsetattr(wok, d, termios)]

\* pub fn set_raw() -> Terminal
set_raw_fn(rok, wok, d, e, uninit) ==
    LET t == Terminal_default(rok, d, e, uninit)
        termios == raw_termios(tcgetattr(rok, d, uninit).t)
    IN  [ret |-> t, dev |-> tcsetattr(wok, d, termios)]

\* set_flags with its first two parameters stored into each other's group.
set_flags_fn_swapped(rok, wok, d, uninit, lflags, iflags, oflags, cflags) ==
    LET t0 == tcgetattr(rok, d, uninit).t
        t1 == [t0 EXCEPT !.c_iflag = IF lflags.some THEN lflags.v ELSE t0.c_iflag]
        t2 == [t1 EXCEPT !.c_lflag = IF iflags.some THEN iflags.v ELSE t1.c_lflag]
        t3 == [t2 EXCEPT !.c_oflag = IF oflags.some THEN oflags.v ELSE t2.c_oflag]
        t4 == [t3 EXCEPT !.c_cflag = IF cflags.some THEN cflags.v ELSE t3.c_cflag]
    IN  tcsetattr(wok, d, t4)

\* pub fn set_flags(lflags, iflags, oflags, cflags)
set_flags_fn(rok, wok, d, uninit, lflags, iflags, oflags, cflags) ==
    LET t0 == tcgetattr(rok, d, uninit).t
        t1 == [t0 EXCEPT !.c_iflag = IF iflags.some THEN iflags.v ELSE t0.c_iflag]
        t2 == [t1 EXCEPT !.c_lflag = IF lflags.some THEN lflags.v ELSE t1.c_lflag]
        t3 == [t2 EXCEPT !.c_oflag = IF oflags.some THEN oflags.v ELSE t2.c_oflag]
        t4 == [t3 EXCEPT !.c_cflag = IF cflags.some THEN cflags.v ELSE t3.c_cflag]
    IN  tcsetattr(wok, d, t4)

\* term_size testing the column count twice and the row count never.
term_size_fn_cols_only(ok, ws) ==
    LET r == ioctl_winsz(ok, ws, [ws_col |-> 0, ws_row |-> 0])
        size == r.size
    IN  IF r.res = 0 /\ size.ws_col > 0 /\ size.ws_col > 0
        THEN Some(<<size.ws_col, size.ws_row>>)
        ELSE [some |-> FALSE, v |-> <<0, 0>>]

\* The four conditional assignments of set_flags with the first two
\* parameters stored into each other's group.
with_flags_swapped(t0, lflags, iflags, oflags, cflags) ==
    LET t1 == [t0 EXCEPT !.c_iflag = IF lflags.some THEN lflags.v ELSE t0.c_iflag]
        t2 == [t1 EXCEPT !.c_lflag = IF iflags.some THEN iflags.v ELSE t1.c_lflag]
        t3 == [t2 EXCEPT !.c_oflag = IF oflags.some THEN oflags.v ELSE t2.c_oflag]
    IN  [t3 EXCEPT !.c_cflag = IF cflags.some THEN cflags.v ELSE t3.c_cflag]

\* The four conditional assignments of set_flags to its local termios.
with_flags(t0, lflags, iflags, oflags, cflags) ==
    LET t1 == [t0 EXCEPT !.c_iflag = IF iflags.some THEN iflags.v ELSE t0.c_iflag]
        t2 == [t1 EXCEPT !.c_lflag = IF lflags.some THEN lflags.v ELSE t1.c_lflag]
        t3 == [t2 EXCEPT !.c_oflag = IF oflags.some THEN oflags.v ELSE t2.c_oflag]
    IN  [t3 EXCEPT !.c_cflag = IF cflags.some THEN cflags.v ELSE t3.c_cflag]

\* pub fn term_size() -> Option<(u32, u32)>
term_size_fn(ok, ws) ==
    LET r == ioctl_winsz(ok, ws, [ws_col |-> 0, ws_row |-> 0])
        size == r.size
    IN  IF r.res = 0 /\ size.ws_col > 0 /\ size.ws_row > 0
        THEN Some(<<size.ws_col, size.ws_row>>)
        ELSE [some |-> FALSE, v |-> <<0, 0>>]

\* toggle_cursor_visable printing the hide escape on both branches.
cursor_escape_always_hide(self) ==
    IF self.cursor_visable THEN <<"ESC[?25l">> ELSE <<"ESC[?25l">>

\* The print! of Terminal::toggle_cursor_visable, as escape tokens.
cursor_escape(self) ==
    IF self.cursor_visable THEN <<"ESC[?25l">> ELSE <<"ESC[?25h">>

\* toggle_alt_buffer entering the alternate screen without clearing it.
alt_escape_no_clear(self) ==
    IF self.alt_buffer THEN <<>> ELSE <<"ESC[?1049h">>

\* The print! of Terminal::toggle_alt_buffer, as escape tokens.
alt_escape(self) ==
    IF self.alt_buffer THEN <<>> ELSE <<"ESC[?1049h", "ESC[2J">>

----------------------------------------------------------------------------
(* The state machine. *)

\* The record a completed call leaves in the log.
Call(op, arg, ret, emit) ==
    [op |-> op, arg |-> arg, ret |-> ret, emit |-> emit,
     pre |-> dev, self |-> term]

\* Terminal values the program holds: its session Terminal and every
\* Terminal a call has returned.
Held ==
    {term} \cup { calls[k].ret : k \in { j \in 1..Len(calls) :
                    calls[j].op \in {"default", "set_term", "set_raw"} } }

\* Nothing has been rendered yet.
NoPaint == [role |-> "none", call |-> [ctor |-> "none"], value |-> [tag |-> "None"], ansi |-> <<>>]

\* The threads that may call set_flags at the same time.
Threads == {1, 2}

\* A thread that has not called set_flags.
Idle == [pc |-> "idle",
         args |-> [lflags |-> None, iflags |-> None, oflags |-> None, cflags |-> None],
         t |-> Termios(0, 0, 0, 0, 0, ZeroCc, 0, 0),
         read_after |-> {}, write_after |-> {}]

Init ==
    /\ dev \in DevStates
    /\ \E ok \in {<<TRUE, TRUE>>, <<TRUE, FALSE>>, <<FALSE, FALSE>>} :
          readOK = ok[1] /\ writeOK = ok[2]
    /\ TERM \in TermEnvs
    /\ \E u \in Uninit : term = Terminal_default(readOK, dev, TERM, u)
    /\ out = <<>>
    /\ calls = <<>>
    /\ paint = NoPaint
    /\ thr = [i \in Threads |-> Idle]

\* let term = Terminal::default();
default ==
    \E u \in Uninit :
        LET t == Terminal_default(readOK, dev, TERM, u)
        IN  /\ term' = t
            /\ calls' = Append(calls, Call("default", None, t, <<>>))
            /\ UNCHANGED <<dev, readOK, writeOK, TERM, out, paint, thr>>

set_term ==
    \E t \in Held : \E u \in Uninit :
        LET r == set_term_fn(readOK, writeOK, dev, TERM, u, t)
        IN  /\ dev' = r.dev
            /\ calls' = Append(calls, Call("set_term", t, r.ret, <<>>))
            /\ UNCHANGED <<readOK, writeOK, TERM, term, out, paint, thr>>

set_raw ==
    \E u \in Uninit :
        LET r == set_raw_fn(readOK, writeOK, dev, TERM, u)
        IN  /\ dev' = r.dev
            /\ calls' = Append(calls, Call("set_raw", None, r.ret, <<>>))
            /\ UNCHANGED <<readOK, writeOK, TERM, term, out, paint, thr>>

set_flags ==
    \E l \in LflagArgs, i \in IflagArgs, o \in OflagArgs, c \in CflagArgs :
      \E u \in Uninit :
        /\ dev' = set_flags_fn(readOK, writeOK, dev, u, l, i, o, c)
        /\ calls' = Append(calls, Call("set_flags",
                        [lflags |-> l, iflags |-> i, oflags |-> o, cflags |-> c],
                        None, <<>>))
        /\ UNCHANGED <<readOK, writeOK, TERM, term, out, paint, thr>>

\* toggle_cursor_visable flipping the alternate-buffer flag as well.
toggle_cursor_visable_flips_both ==
    LET e == cursor_escape(term)
        new == ~term.cursor_visable
    IN  /\ out' = out \o e
        /\ term' = [term EXCEPT !.cursor_visable = new, !.alt_buffer = ~term.alt_buffer]
        /\ calls' = Append(calls, Call("toggle_cursor_visable", None, new, e))
        /\ UNCHANGED <<dev, readOK, writeOK, TERM, paint, thr>>

toggle_cursor_visable ==
    LET e == cursor_escape(term)
        new == ~term.cursor_visable
    IN  /\ out' = out \o e
        /\ term' = [term EXCEPT !.cursor_visable = new]
        /\ calls' = Append(calls, Call("toggle_cursor_visable", None, new, e))
        /\ UNCHANGED <<dev, readOK, writeOK, TERM, paint, thr>>

toggle_alt_buffer ==
    LET e == alt_escape(term)
        new == ~term.alt_buffer
    IN  /\ out' = out \o e
        /\ term' = [term EXCEPT !.alt_buffer = new]
        /\ calls' = Append(calls, Call("toggle_alt_buffer", None, new, e))
        /\ UNCHANGED <<dev, readOK, writeOK, TERM, paint, thr>>

term_size ==
    \E q \in WinQueries :
        /\ calls' = Append(calls, Call("term_size", q, term_size_fn(q.ok, q.ws), <<>>))
        /\ UNCHANGED <<dev, readOK, writeOK, TERM, term, out, paint, thr>>

\* The program has made fewer than n calls.
Below(n) == Len(calls) < n

Next ==
    \/ Below(MaxCalls) /\ default
    \/ Below(MaxCalls) /\ set_term
    \/ Below(MaxCalls) /\ set_raw
    \/ Below(MaxCalls) /\ set_flags
    \/ Below(MaxCalls) /\ toggle_cursor_visable
    \/ Below(MaxCalls) /\ toggle_alt_buffer
    \/ Below(MaxCalls) /\ term_size

Spec == Init /\ [][Next]_vars

\* A program that only constructs session Terminals and toggles them.
NextToggle ==
    \/ Below(MaxToggles) /\ default
    \/ Below(MaxToggles) /\ toggle_cursor_visable
    \/ Below(MaxToggles) /\ toggle_alt_buffer

SpecToggle == Init /\ [][NextToggle]_vars

\* A program that only enters raw mode and restores Terminals it holds.
NextNested ==
    \/ Below(MaxNested) /\ set_raw
    \/ Below(MaxNested) /\ set_term

SpecNested == Init /\ [][NextNested]_vars

\* A program that enters raw mode, restores held Terminals and toggles.
NextRestore ==
    \/ Below(MaxRestore) /\ set_raw
    \/ Below(MaxRestore) /\ set_term
    \/ Below(MaxRestore) /\ toggle_cursor_visable
    \/ Below(MaxRestore) /\ toggle_alt_buffer

SpecRestore == Init /\ [][NextRestore]_vars

----------------------------------------------------------------------------
(* set_flags called from several threads. The function takes no lock, so   *)
(* its two system calls are separate steps of the thread.                  *)

\* The threads whose call of set_flags has returned.
Finished == { j \in Threads : thr[j].pc = "done" }

\* Thread i enters set_flags and runs up to and including tcgetattr.
set_flags_read(i) ==
    /\ thr[i].pc = "idle"
    /\ \E l \in LflagArgs, f \in IflagArgs, o \in OflagArgs, c \in CflagArgs :
        \E u \in Uninit :
          thr' = [thr EXCEPT ![i] =
                    [pc |-> "read",
                     args |-> [lflags |-> l, iflags |-> f, oflags |-> o, cflags |-> c],
                     t |-> tcgetattr(readOK, dev, u).t,
                     read_after |-> Finished,
                     write_after |-> {}]]
    /\ UNCHANGED <<dev, readOK, writeOK, TERM, term, out, calls, paint>>

\* Thread i overwrites the groups it was given in its local termios, runs
\* tcsetattr and returns.
set_flags_write(i) ==
    /\ thr[i].pc = "read"
    /\ LET a == thr[i].args
       IN  dev' = tcsetattr(writeOK, dev,
                            with_flags(thr[i].t, a.lflags, a.iflags, a.oflags, a.cflags))
    /\ thr' = [thr EXCEPT ![i].pc = "done", ![i].write_after = Finished]
    /\ UNCHANGED <<readOK, writeOK, TERM, term, out, calls, paint>>

\* A program whose threads each call set_flags once.
NextThreads ==
    \/ \E i \in Threads : set_flags_read(i)
    \/ \E i \in Threads : set_flags_write(i)

SpecThreads == Init /\ [][NextThreads]_vars

----------------------------------------------------------------------------
(* Colours (src/src/color.rs). A String is the sequence of its characters,  *)
(* "ESC" standing for the escape character \x1b.                            *)

\* enum Iso
IsoColors == {"Black", "Red", "Green", "Yellow", "Blue", "Magenta", "Cyan", "White"}

\* enum Color
Color_Iso(color, bright) == [tag |-> "Iso", color |-> color, bright |-> bright]
Color_Extended(val) == [tag |-> "Extended", val |-> val]
Color_Rgb(r, g, b) == [tag |-> "Rgb", r |-> r, g |-> g, b |-> b]
Color_None == [tag |-> "None"]

\* Iso::to_char with the digits of yellow and blue exchanged.
Iso_to_char_swapped(self) ==
    CASE self = "Black" -> "0"
      [] self = "Red" -> "1"
      [] self = "Green" -> "2"
      [] self = "Yellow" -> "4"
      [] self = "Blue" -> "3"
      [] self = "Magenta" -> "5"
      [] self = "Cyan" -> "6"
      [] self = "White" -> "7"

\* Iso::to_char
Iso_to_char(self) ==
    CASE self = "Black" -> "0"
      [] self = "Red" -> "1"
      [] self = "Green" -> "2"
      [] self = "Yellow" -> "3"
      [] self = "Blue" -> "4"
      [] self = "Magenta" -> "5"
      [] self = "Cyan" -> "6"
      [] self = "White" -> "7"

\* The character of a decimal digit.
digit_char(d) == <<"0", "1", "2", "3", "4", "5", "6", "7", "8", "9">>[d + 1]

\* An integer formatted to three places with leading zeros, as {:03} does.
to_string_padded(n) ==
    <<digit_char(n \div 100), digit_char((n \div 10) % 10), digit_char(n % 10)>>

\* An integer formatted by {}: its decimal digits, most significant first.
RECURSIVE to_string(_)
to_string(n) ==
    IF n < 10 THEN <<digit_char(n)>> ELSE to_string(n \div 10) \o <<digit_char(n % 10)>>

\* Foreground::to_ansi with the green and blue components exchanged.
Foreground_to_ansi_gbr(self) ==
    CASE self.tag = "Iso" ->
            <<"ESC", "[">> \o to_string(IF self.bright THEN 9 ELSE 3)
                \o <<Iso_to_char(self.color)>> \o <<"m">>
      [] self.tag = "Extended" ->
            <<"ESC", "[", "3", "8", ";", "5", ";">> \o to_string(self.val) \o <<"m">>
      [] self.tag = "Rgb" ->
            <<"ESC", "[", "3", "8", ";", "2", ";">> \o to_string(self.r) \o <<";">>
                \o to_string(self.b) \o <<";">> \o to_string(self.g) \o <<"m">>
      [] self.tag = "None" -> <<>>

\* Foreground::to_ansi
Foreground_to_ansi(self) ==
    CASE self.tag = "Iso" ->
            <<"ESC", "[">> \o to_string(IF self.bright THEN 9 ELSE 3)
                \o <<Iso_to_char(self.color)>> \o <<"m">>
      [] self.tag = "Extended" ->
            <<"ESC", "[", "3", "8", ";", "5", ";">> \o to_string(self.val) \o <<"m">>
      [] self.tag = "Rgb" ->
            <<"ESC", "[", "3", "8", ";", "2", ";">> \o to_string(self.r) \o <<";">>
                \o to_string(self.g) \o <<";">> \o to_string(self.b) \o <<"m">>
      [] self.tag = "None" -> <<>>

\* Background::to_ansi with the bright prefix of the foreground.
Background_to_ansi_bright_9(self) ==
    CASE self.tag = "Iso" ->
            <<"ESC", "[">> \o to_string(IF self.bright THEN 9 ELSE 4)
                \o <<Iso_to_char(self.color)>> \o <<"m">>
      [] self.tag = "Extended" ->
            <<"ESC", "[", "4", "8", ";", "5", ";">> \o to_string(self.val) \o <<"m">>
      [] self.tag = "Rgb" ->
            <<"ESC", "[", "4", "8", ";", "2", ";">> \o to_string(self.r) \o <<";">>
                \o to_string(self.g) \o <<";">> \o to_string(self.b) \o <<"m">>
      [] self.tag = "None" -> <<>>

\* Background::to_ansi rendering the unset colour as the default-colour escape.
Background_to_ansi_none_resets(self) ==
    CASE self.tag = "Iso" ->
            <<"ESC", "[">> \o to_string(IF self.bright THEN 10 ELSE 4)
                \o <<Iso_to_char(self.color)>> \o <<"m">>
      [] self.tag = "Extended" ->
            <<"ESC", "[", "4", "8", ";", "5", ";">> \o to_string(self.val) \o <<"m">>
      [] self.tag = "Rgb" ->
            <<"ESC", "[", "4", "8", ";", "2", ";">> \o to_string(self.r) \o <<";">>
                \o to_string(self.g) \o <<";">> \o to_string(self.b) \o <<"m">>
      [] self.tag = "None" -> <<"ESC", "[", "4", "9", "m">>

\* Background::to_ansi
Background_to_ansi(self) ==
    CASE self.tag = "Iso" ->
            <<"ESC", "[">> \o to_string(IF self.bright THEN 10 ELSE 4)
                \o <<Iso_to_char(self.color)>> \o <<"m">>
      [] self.tag = "Extended" ->
            <<"ESC", "[", "4", "8", ";", "5", ";">> \o to_string(self.val) \o <<"m">>
      [] self.tag = "Rgb" ->
            <<"ESC", "[", "4", "8", ";", "2", ";">> \o to_string(self.r) \o <<";">>
                \o to_string(self.g) \o <<";">> \o to_string(self.b) \o <<"m">>
      [] self.tag = "None" -> <<>>

\* The named constructors black .. white of Foreground and Background.
named(name, b) ==
    CASE name = "black" -> Color_Iso("Black", b)
      [] name = "red" -> Color_Iso("Red", b)
      [] name = "green" -> Color_Iso("Green", b)
      [] name = "yellow" -> Color_Iso("Yellow", b)
      [] name = "blue" -> Color_Iso("Blue", b)
      [] name = "magenta" -> Color_Iso("Magenta", b)
      [] name = "cyan" -> Color_Iso("Cyan", b)
      [] name = "white" -> Color_Iso("White", b)

\* Component values explored for rgb: one, two and three digits, both ends.
RgbSamples == {0, 7, 10, 99, 100, 255}

\* Constructor calls a caller may make, the same for both roles.
ColorCalls ==
    { [ctor |-> "named", name |-> n, bright |-> b] :
        n \in {"black", "red", "green", "yellow", "blue", "magenta", "cyan", "white"},
        b \in BOOLEAN }
    \cup { [ctor |-> "iso", color |-> c, bright |-> b] : c \in IsoColors, b \in BOOLEAN }
    \cup { [ctor |-> "extended", ext |-> n] : n \in 0..255 }
    \cup { [ctor |-> "rgb", r |-> r, g |-> g, b |-> b] :
             r \in RgbSamples, g \in RgbSamples, b \in RgbSamples }
    \cup { [ctor |-> "new", value |-> Color_None] }

\* The Color a constructor call wraps.
construct(c) ==
    CASE c.ctor = "named" -> named(c.name, c.bright)
      [] c.ctor = "iso" -> Color_Iso(c.color, c.bright)
      [] c.ctor = "extended" -> Color_Extended(c.ext)
      [] c.ctor = "rgb" -> Color_Rgb(c.r, c.g, c.b)
      [] c.ctor = "new" -> c.value

\* Foreground::<ctor>(..).to_ansi()
foreground ==
    \E c \in ColorCalls :
        /\ paint' = [role |-> "fg", call |-> c, value |-> construct(c),
                     ansi |-> Foreground_to_ansi(construct(c))]
        /\ UNCHANGED <<dev, readOK, writeOK, TERM, term, out, calls, thr>>

\* Background::<ctor>(..).to_ansi()
background ==
    \E c \in ColorCalls :
        /\ paint' = [role |-> "bg", call |-> c, value |-> construct(c),
                     ansi |-> Background_to_ansi(construct(c))]
        /\ UNCHANGED <<dev, readOK, writeOK, TERM, term, out, calls, thr>>

\* A program that renders one colour: to_ansi takes &self and touches no
\* state, so one rendering per run covers every rendering.
NextColor ==
    \/ paint.role = "none" /\ foreground
    \/ paint.role = "none" /\ background

SpecColor == Init /\ [][NextColor]_vars

----------------------------------------------------------------------------
(* Vocabulary of the properties. *)

Last == calls[Len(calls)]
Prev == calls[Len(calls) - 1]

\* Both the attribute read and the attribute write on stdin succeed.
Working == readOK /\ writeOK

\* Bit b (a power of two) is set in the flag word x.
HasBit(x, b) == (x \div b) % 2 = 1

\* The bit positions of a flag word that the explored values can carry.
FlagBits == { 2 ^ k : k \in 0..30 }

\* The attribute fields of Terminal t are those of the termios d.
SnapshotOf(t, d) ==
    /\ t.c_iflags = d.c_iflag
    /\ t.c_oflags = d.c_oflag
    /\ t.c_cflags = d.c_cflag
    /\ t.c_lflags = d.c_lflag
    /\ t.c_line = d.c_line
    /\ t.c_cc = d.c_cc
    /\ t.c_ispeed = d.c_ispeed
    /\ t.c_ospeed = d.c_ospeed

\* Two termios values agree field by field.
SameAttrs(a, b) ==
    /\ a.c_iflag = b.c_iflag
    /\ a.c_oflag = b.c_oflag
    /\ a.c_cflag = b.c_cflag
    /\ a.c_lflag = b.c_lflag
    /\ a.c_line = b.c_line
    /\ \A i \in 0..(NCCS - 1) : a.c_cc[i] = b.c_cc[i]
    /\ a.c_ispeed = b.c_ispeed
    /\ a.c_ospeed = b.c_ospeed

\* The last two calls were set_raw() and then set_term(point) with the
\* Terminal that set_raw returned, on a working terminal.
RawThenRestore ==
    /\ Len(calls) >= 2
    /\ Working
    /\ Prev.op = "set_raw"
    /\ Last.op = "set_term"
    /\ Last.arg = Prev.ret

\* C1: set_raw() followed by set_term(point), point being what set_raw
\* returned, leaves the device with exactly the attributes it had before
\* set_raw: all four flag groups, the control-character table, the line
\* discipline and both speeds.
C1_RawThenRestoreIsIdentity ==
    RawThenRestore => SameAttrs(dev, Prev.pre)

\* The round trip happened on a device that set_raw really changed.
C1_Witness ==
    /\ RawThenRestore
    /\ ~SameAttrs(Last.pre, Prev.pre)
    /\ Prev.pre.c_line # 0

\* C2: what set_raw() leaves on the device is the captured baseline with
\* ICANON, ECHO and ISIG cleared in the local flags, IXON cleared in the
\* input flags and OPOST cleared in the output flags; every other bit and
\* field is the baseline's, and the baseline is what set_raw returns.
C2_SetRawClearsExactlyFiveBits ==
    (Len(calls) >= 1 /\ Working /\ Last.op = "set_raw") =>
        LET base == Last.pre
        IN  /\ SnapshotOf(Last.ret, base)
            /\ \A b \in FlagBits :
                /\ HasBit(dev.c_lflag, b) <=>
                      (HasBit(base.c_lflag, b) /\ b \notin {ICANON, ECHO, ISIG})
                /\ HasBit(dev.c_iflag, b) <=>
                      (HasBit(base.c_iflag, b) /\ b # IXON)
                /\ HasBit(dev.c_oflag, b) <=>
                      (HasBit(base.c_oflag, b) /\ b # OPOST)
            /\ dev.c_cflag = base.c_cflag
            /\ dev.c_cc = base.c_cc
            /\ dev.c_line = base.c_line
            /\ dev.c_ispeed = base.c_ispeed
            /\ dev.c_ospeed = base.c_ospeed

\* set_raw ran on a cooked terminal: all five bits were set, other bits too.
C2_Witness ==
    /\ Len(calls) >= 1 /\ Working /\ Last.op = "set_raw"
    /\ \A b \in {ICANON, ECHO, ISIG} : HasBit(Last.pre.c_lflag, b)
    /\ HasBit(Last.pre.c_iflag, IXON)
    /\ HasBit(Last.pre.c_oflag, OPOST)
    /\ dev.c_lflag # 0 /\ dev.c_iflag # 0 /\ dev.c_oflag # 0

\* The value a flag group holds after set_flags was given arg for it.
Updated(arg, before) == IF arg.some THEN arg.v ELSE before

\* C3: set_flags sets each flag group whose argument is Some(v) to v and
\* leaves the groups given None, the control-character table, the line
\* discipline and the speeds as they were; with four None the device
\* attributes are unchanged.
C3_SetFlagsOverwritesOnlySupplied ==
    (Len(calls) >= 1 /\ Working /\ Last.op = "set_flags") =>
        LET a == Last.arg
            before == Last.pre
        IN  /\ dev.c_lflag = Updated(a.lflags, before.c_lflag)
            /\ dev.c_iflag = Updated(a.iflags, before.c_iflag)
            /\ dev.c_oflag = Updated(a.oflags, before.c_oflag)
            /\ dev.c_cflag = Updated(a.cflags, before.c_cflag)
            /\ dev.c_cc = before.c_cc
            /\ dev.c_line = before.c_line
            /\ dev.c_ispeed = before.c_ispeed
            /\ dev.c_ospeed = before.c_ospeed
            /\ (~a.lflags.some /\ ~a.iflags.some /\ ~a.oflags.some /\ ~a.cflags.some)
                  => SameAttrs(dev, before)

\* set_flags was given some groups and not others, and changed the device.
C3_Witness ==
    /\ Len(calls) >= 1 /\ Working /\ Last.op = "set_flags"
    /\ Last.arg.lflags.some /\ ~Last.arg.iflags.some
    /\ ~Last.arg.oflags.some /\ Last.arg.cflags.some
    /\ dev.c_lflag # Last.pre.c_lflag
    /\ dev.c_cflag # Last.pre.c_cflag
    /\ Last.pre.c_iflag # 0 /\ Last.pre.c_oflag # 0

\* The last two calls were Terminal::default() and then set_term with the
\* Terminal it produced, on a working terminal.
ApplyFreshCapture ==
    /\ Len(calls) >= 2
    /\ Working
    /\ Prev.op = "default"
    /\ Last.op = "set_term"
    /\ Last.arg = Prev.ret

\* C4: set_term(Terminal::default()) changes no device attribute.
C4_ApplyCaptureIsNoOp ==
    ApplyFreshCapture => SameAttrs(dev, Last.pre)

\* A freshly captured snapshot of a non-trivial device was applied.
C4_Witness ==
    /\ ApplyFreshCapture
    /\ dev.c_line # 0
    /\ dev.c_ispeed # dev.c_ospeed
    /\ dev.c_lflag # 0

----------------------------------------------------------------------------
(* Session toggles. *)

\* Position in the log of the call that constructed the session Terminal
\* (0: it is the one constructed at start-up).
FreshAt ==
    LET D == { k \in 1..Len(calls) : calls[k].op = "default" }
    IN  IF D = {} THEN 0 ELSE CHOOSE k \in D : \A j \in D : j <= k

\* The calls of op made on the session Terminal since it was constructed.
CallsOf(op) ==
    SelectSeq(SubSeq(calls, FreshAt + 1, Len(calls)), LAMBDA c : c.op = op)

\* The escapes the calls of s emitted, in order.
RECURSIVE Flat(_)
Flat(s) == IF s = <<>> THEN <<>> ELSE Head(s).emit \o Flat(Tail(s))

\* The last two escapes written to standard output.
Tail2(o) == SubSeq(o, Len(o) - 1, Len(o))

TwoCursorToggles ==
    /\ Len(calls) >= 2
    /\ Prev.op = "toggle_cursor_visable"
    /\ Last.op = "toggle_cursor_visable"

\* C5: toggle_cursor_visable is an involution: two consecutive calls bring
\* the flag back and emit the two complementary escapes in order; each call
\* returns the new flag value; and on a fresh Terminal the flag is false
\* exactly when the last cursor escape emitted was the hide escape.
C5_CursorToggleInvolution ==
    /\ (Len(calls) >= 1 /\ Last.op = "toggle_cursor_visable") =>
          /\ Last.ret = term.cursor_visable
          /\ Last.ret = ~Last.self.cursor_visable
    /\ TwoCursorToggles =>
          /\ term.cursor_visable = Prev.self.cursor_visable
          /\ Prev.emit \o Last.emit = Tail2(out)
          /\ Tail2(out) = IF Prev.self.cursor_visable
                          THEN <<"ESC[?25l", "ESC[?25h">>
                          ELSE <<"ESC[?25h", "ESC[?25l">>
    /\ LET e == Flat(CallsOf("toggle_cursor_visable"))
       IN  (~term.cursor_visable) <=> (e # <<>> /\ e[Len(e)] = "ESC[?25l")

\* Two consecutive calls starting from a hidden cursor.
C5_Witness ==
    /\ TwoCursorToggles
    /\ ~Prev.self.cursor_visable
    /\ Len(CallsOf("toggle_cursor_visable")) >= 3

\* The screen buffer the escapes of e leave selected: the alternate one
\* exactly when the last enter/leave escape in e is the enter escape.
RECURSIVE AltSelected(_)
AltSelected(e) ==
    IF e = <<>> THEN FALSE
    ELSE IF e[Len(e)] = "ESC[?1049h" THEN TRUE
    ELSE IF e[Len(e)] = "ESC[?1049l" THEN FALSE
    ELSE AltSelected(SubSeq(e, 1, Len(e) - 1))

\* C6: toggle_alt_buffer called with the flag true emits the leave escape
\* ESC[?1049l, so that after any sequence of calls the flag agrees with the
\* screen buffer the emitted escapes select.
C6_AltOffEmitsLeave ==
    /\ (Len(calls) >= 1 /\ Last.op = "toggle_alt_buffer" /\ Last.self.alt_buffer) =>
          Last.emit = <<"ESC[?1049l">>
    /\ term.alt_buffer <=> AltSelected(Flat(CallsOf("toggle_alt_buffer")))

\* C7: toggle_alt_buffer called with the flag false emits exactly
\* ESC[?1049h then ESC[2J; every call flips the flag and returns the new
\* value, so on a fresh Terminal the flag is true exactly after an odd
\* number of calls.
C7_AltOnEmitsEnterAndClear ==
    /\ out = Flat(calls)
    /\ (Len(calls) >= 1 /\ Last.op = "toggle_alt_buffer") =>
          /\ Last.ret = term.alt_buffer
          /\ Last.ret = ~Last.self.alt_buffer
          /\ ~Last.self.alt_buffer =>
                /\ Last.emit = <<"ESC[?1049h", "ESC[2J">>
                /\ Tail2(out) = <<"ESC[?1049h", "ESC[2J">>
    /\ term.alt_buffer <=> (Len(CallsOf("toggle_alt_buffer")) % 2 = 1)

\* The alternate buffer is turned on for the second time.
C7_Witness ==
    /\ Len(calls) >= 1
    /\ Last.op = "toggle_alt_buffer"
    /\ ~Last.self.alt_buffer
    /\ Len(CallsOf("toggle_alt_buffer")) = 3

----------------------------------------------------------------------------
(* Window size and failure paths. *)

\* C8: term_size returns Some((columns, rows)) exactly when the query
\* succeeds and both dimensions are strictly positive, with the values
\* unchanged and in that order; otherwise None. A returned value never has
\* a zero dimension.
C8_TermSizeSomeIffPositive ==
    (Len(calls) >= 1 /\ Last.op = "term_size") =>
        LET q == Last.arg
            r == Last.ret
        IN  /\ r.some <=> (q.ok /\ q.ws.ws_col > 0 /\ q.ws.ws_row > 0)
            /\ r.some => /\ r.v = <<q.ws.ws_col, q.ws.ws_row>>
                         /\ r.v[1] > 0
                         /\ r.v[2] > 0

\* The query succeeded but reported zero rows, and term_size gave None.
C8_Witness ==
    /\ Len(calls) >= 1 /\ Last.op = "term_size"
    /\ Last.arg.ok /\ Last.arg.ws.ws_col > 0 /\ Last.arg.ws.ws_row = 0
    /\ ~Last.ret.some

\* Terminal t is the all-zero snapshot named after TERM.
ZeroSnapshot(t) ==
    /\ t.c_iflags = 0 /\ t.c_oflags = 0 /\ t.c_cflags = 0 /\ t.c_lflags = 0
    /\ t.c_line = 0
    /\ \A i \in 0..(NCCS - 1) : t.c_cc[i] = 0
    /\ t.c_ispeed = 0 /\ t.c_ospeed = 0
    /\ t.term_name = (IF TERM.set THEN TERM.val ELSE "")
    /\ t.cursor_visable
    /\ ~t.alt_buffer

\* C9: when the attribute read fails, Terminal::default() still yields a
\* value: every attribute field zero, term_name from TERM (empty if unset),
\* cursor-visible true and alternate-buffer false.
C9_DefaultFallsBackToZero ==
    ~readOK =>
        /\ Len(calls) = 0 => ZeroSnapshot(term)
        /\ (Len(calls) >= 1 /\ Last.op = "default") =>
              /\ ZeroSnapshot(Last.ret)
              /\ term = Last.ret

\* default() ran with TERM set on a standard input whose read fails.
C9_Witness ==
    /\ ~readOK
    /\ Len(calls) >= 1 /\ Last.op = "default"
    /\ TERM.set
    /\ Last.ret.term_name = "xterm-256color"

\* C10: when the attribute write fails, set_term, set_raw and set_flags
\* return as on success (set_term and set_raw the snapshot captured before
\* the write, set_flags unit) and the device attributes stay as they were.
C10_WriteFailureDiscarded ==
    (Len(calls) >= 1 /\ ~writeOK /\ Last.op \in {"set_term", "set_raw", "set_flags"}) =>
        /\ SameAttrs(dev, Last.pre)
        /\ Last.op \in {"set_term", "set_raw"} =>
              /\ readOK => SnapshotOf(Last.ret, Last.pre)
              /\ ~readOK => ZeroSnapshot(Last.ret)
              /\ Last.ret.term_name = (IF TERM.set THEN TERM.val ELSE "")
              /\ Last.ret.cursor_visable
              /\ ~Last.ret.alt_buffer
        /\ Last.op = "set_flags" => Last.ret = None

\* set_raw ran on a cooked terminal whose attribute write fails.
C10_Witness ==
    /\ Len(calls) >= 1 /\ ~writeOK /\ readOK
    /\ Last.op = "set_raw"
    /\ HasBit(Last.pre.c_lflag, ICANON)
    /\ HasBit(Last.pre.c_oflag, OPOST)

----------------------------------------------------------------------------
(* Colour rendering. *)

\* The decimal numerals, by value.
Numerals == <<"0", "1", "2", "3", "4", "5", "6", "7", "8", "9">>

\* The number a sequence of numerals denotes.
RECURSIVE DecValue(_)
DecValue(d) ==
    IF d = <<>> THEN 0
    ELSE 10 * DecValue(SubSeq(d, 1, Len(d) - 1))
            + (CHOOSE k \in 0..9 : Numerals[k + 1] = d[Len(d)])

\* d is n written in decimal: numerals only, no padding, denoting n itself.
IsDecimalOf(d, n) ==
    /\ Len(d) >= 1
    /\ \A i \in 1..Len(d) : \E k \in 0..9 : Numerals[k + 1] = d[i]
    /\ Len(d) > 1 => d[1] # "0"
    /\ DecValue(d) = n

\* The hue digit the documentation fixes: black=0 .. white=7.
HueDigit(hue) ==
    CASE hue \in {"Black", "black"} -> "0"
      [] hue \in {"Red", "red"} -> "1"
      [] hue \in {"Green", "green"} -> "2"
      [] hue \in {"Yellow", "yellow"} -> "3"
      [] hue \in {"Blue", "blue"} -> "4"
      [] hue \in {"Magenta", "magenta"} -> "5"
      [] hue \in {"Cyan", "cyan"} -> "6"
      [] hue \in {"White", "white"} -> "7"

Rendered == paint.role \in {"fg", "bg"}

\* C11: for each of the 8 hues and both brightness values the foreground
\* renders ESC[ 3|9 digit m and the background ESC[ 4|10 digit m, with
\* black=0 .. white=7; a named constructor with flag b renders what
\* iso(hue, b) renders.
C11_Indexed8Rendering ==
    (Rendered /\ paint.call.ctor \in {"named", "iso"}) =>
        LET hue == IF paint.call.ctor = "named" THEN paint.call.name ELSE paint.call.color
            lead == IF paint.role = "fg"
                    THEN (IF paint.call.bright THEN <<"9">> ELSE <<"3">>)
                    ELSE (IF paint.call.bright THEN <<"1", "0">> ELSE <<"4">>)
        IN  paint.ansi = <<"ESC", "[">> \o lead \o <<HueDigit(hue), "m">>

\* Background::yellow(true) was rendered.
C11_Witness ==
    /\ paint.role = "bg"
    /\ paint.call.ctor = "named"
    /\ paint.call.name = "yellow"
    /\ paint.call.bright
    /\ paint.ansi = <<"ESC", "[", "1", "0", "3", "m">>

\* C12: for every index n in 0..255 extended(n) renders ESC[38;5;{n}m as
\* foreground and ESC[48;5;{n}m as background, n in decimal, unpadded and
\* unclamped.
C12_Indexed256Rendering ==
    (Rendered /\ paint.call.ctor = "extended") =>
        LET a == paint.ansi
            lead == IF paint.role = "fg"
                    THEN <<"ESC", "[", "3", "8", ";", "5", ";">>
                    ELSE <<"ESC", "[", "4", "8", ";", "5", ";">>
        IN  /\ Len(a) >= 9
            /\ SubSeq(a, 1, 7) = lead
            /\ IsDecimalOf(SubSeq(a, 8, Len(a) - 1), paint.call.ext)
            /\ a[Len(a)] = "m"

\* Foreground::extended(255) was rendered.
C12_Witness ==
    /\ paint.role = "fg"
    /\ paint.call.ctor = "extended"
    /\ paint.call.ext = 255
    /\ paint.ansi = <<"ESC", "[", "3", "8", ";", "5", ";", "2", "5", "5", "m">>

\* C13: rgb(r, g, b) renders ESC[38;2;{r};{g};{b}m as foreground and
\* ESC[48;2;{r};{g};{b}m as background, the components in r, g, b order,
\* in decimal, unclamped.
C13_RgbRendering ==
    (Rendered /\ paint.call.ctor = "rgb") =>
        LET a == paint.ansi
            lead == IF paint.role = "fg"
                    THEN <<"ESC", "[", "3", "8", ";", "2", ";">>
                    ELSE <<"ESC", "[", "4", "8", ";", "2", ";">>
        IN  \E lr \in 1..3, lg \in 1..3, lb \in 1..3 :
                /\ Len(a) = 7 + lr + 1 + lg + 1 + lb + 1
                /\ SubSeq(a, 1, 7) = lead
                /\ IsDecimalOf(SubSeq(a, 8, 7 + lr), paint.call.r)
                /\ a[8 + lr] = ";"
                /\ IsDecimalOf(SubSeq(a, 9 + lr, 8 + lr + lg), paint.call.g)
                /\ a[9 + lr + lg] = ";"
                /\ IsDecimalOf(SubSeq(a, 10 + lr + lg, 9 + lr + lg + lb), paint.call.b)
                /\ a[Len(a)] = "m"

\* Foreground::rgb(255, 7, 100) was rendered.
C13_Witness ==
    /\ paint.role = "fg"
    /\ paint.call.ctor = "rgb"
    /\ paint.call.r = 255 /\ paint.call.g = 7 /\ paint.call.b = 100
    /\ Len(paint.ansi) = 17

\* C14: Color::None renders to the empty string in both roles, and no other
\* Color value does in either role.
C14_OnlyNoneRendersEmpty ==
    Rendered => (paint.ansi = <<>> <=> paint.value.tag = "None")

\* Background::new(Color::None) was rendered.
C14_Witness ==
    /\ paint.role = "bg"
    /\ paint.call.ctor = "new"
    /\ paint.value.tag = "None"
    /\ paint.ansi = <<>>

----------------------------------------------------------------------------
(* The TERM variable. *)

\* Terminal t carrying the name n in place of its own.
Renamed(t, n) == [t EXCEPT !.term_name = n]

\* Names a Terminal may carry in the other run.
OtherNames == {"", "xterm-256color", "vt100"}

\* The term_name a Terminal constructed under environment e carries.
NameUnder(e) == IF e.set THEN e.val ELSE ""

\* The last call, made again from the same device by a run whose TERM is
\* any e and whose Terminals carry any name n, writes the same attributes,
\* emits the same escapes and returns the same value up to term_name.
\* (set_flags and term_size take neither TERM nor a Terminal: the other run
\* makes the very same call.)
SameUnderAnyTerm ==
    CASE Last.op = "default" ->
            \A e \in TermEnvs, u \in Uninit :
                LET t == Terminal_default(readOK, Last.pre, e, u)
                IN  /\ Renamed(t, "") = Renamed(Last.ret, "")
                    /\ t.term_name = NameUnder(e)
      [] Last.op = "set_term" ->
            \A e \in TermEnvs, n \in OtherNames, u \in Uninit :
                LET r == set_term_fn(readOK, writeOK, Last.pre, e, u, Renamed(Last.arg, n))
                IN  /\ SameAttrs(r.dev, dev)
                    /\ Renamed(r.ret, "") = Renamed(Last.ret, "")
                    /\ r.ret.term_name = NameUnder(e)
      [] Last.op = "set_raw" ->
            \A e \in TermEnvs, u \in Uninit :
                LET r == set_raw_fn(readOK, writeOK, Last.pre, e, u)
                IN  /\ SameAttrs(r.dev, dev)
                    /\ Renamed(r.ret, "") = Renamed(Last.ret, "")
                    /\ r.ret.term_name = NameUnder(e)
      [] Last.op = "set_flags" ->
            \A u \in Uninit :
                SameAttrs(set_flags_fn(readOK, writeOK, Last.pre, u, Last.arg.lflags,
                                       Last.arg.iflags, Last.arg.oflags, Last.arg.cflags),
                          dev)
      [] Last.op = "toggle_cursor_visable" ->
            \A n \in OtherNames :
                /\ cursor_escape(Renamed(Last.self, n)) = Last.emit
                /\ term = Renamed([Renamed(Last.self, n) EXCEPT !.cursor_visable = Last.ret],
                                  Last.self.term_name)
      [] Last.op = "toggle_alt_buffer" ->
            \A n \in OtherNames :
                /\ alt_escape(Renamed(Last.self, n)) = Last.emit
                /\ term = Renamed([Renamed(Last.self, n) EXCEPT !.alt_buffer = Last.ret],
                                  Last.self.term_name)
      [] Last.op = "term_size" ->
            term_size_fn(Last.arg.ok, Last.arg.ws) = Last.ret

\* C15: the value of TERM never alters behaviour. Whatever call a run makes,
\* a run that differs only in TERM, or in the term_name of the Terminal it
\* passes, writes the same attributes to the device, emits the same escapes
\* and gets the same term_size; only the term_name of the Terminals
\* constructed differs, and it is the value of TERM (empty if unset).
C15_TermNeverAltersBehaviour ==
    /\ term.term_name = NameUnder(TERM)
    /\ Len(calls) >= 1 =>
          SameUnderAnyTerm

\* set_term restored a point on a device set_raw had changed, with TERM set.
C15_Witness ==
    /\ Len(calls) >= 2
    /\ Working
    /\ TERM.set
    /\ Prev.op = "set_raw"
    /\ Last.op = "set_term"
    /\ Last.arg.term_name = "xterm-256color"
    /\ ~SameAttrs(dev, Last.pre)

----------------------------------------------------------------------------
(* Frame of the toggles. *)

\* C16: toggle_cursor_visable changes only the cursor-visible flag and
\* toggle_alt_buffer only the alternate-buffer flag: the other flag, the
\* attribute fields and term_name of the Terminal and the attributes of the
\* device stay as they were, and the Terminal is not refreshed from the
\* device.
C16_TogglesTouchOnlyTheirFlag ==
    /\ (Len(calls) >= 1 /\ Last.op = "toggle_cursor_visable") =>
          /\ term = [Last.self EXCEPT !.cursor_visable = ~Last.self.cursor_visable]
          /\ term.alt_buffer = Last.self.alt_buffer
          /\ SameAttrs(cast_to_termios(term), cast_to_termios(Last.self))
          /\ term.term_name = Last.self.term_name
          /\ SameAttrs(dev, Last.pre)
    /\ (Len(calls) >= 1 /\ Last.op = "toggle_alt_buffer") =>
          /\ term = [Last.self EXCEPT !.alt_buffer = ~Last.self.alt_buffer]
          /\ term.cursor_visable = Last.self.cursor_visable
          /\ SameAttrs(cast_to_termios(term), cast_to_termios(Last.self))
          /\ term.term_name = Last.self.term_name
          /\ SameAttrs(dev, Last.pre)

\* The cursor was toggled on a Terminal whose snapshot the device no longer
\* matches: the snapshot stayed as it was.
C16_Witness ==
    /\ Len(calls) >= 2
    /\ Last.op = "toggle_cursor_visable"
    /\ Working
    /\ ~SnapshotOf(term, dev)
    /\ ~SnapshotOf(Last.self, dev)

----------------------------------------------------------------------------
(* Nesting and repetition of set_raw and set_term. *)

\* The number n of set_raw calls the run began with.
LeadingRaws ==
    LET N == { k \in 0..Len(calls) : \A j \in 1..k : calls[j].op = "set_raw" }
    IN  CHOOSE k \in N : \A j \in N : j <= k

\* The device attributes after call m of the log.
After(m) == IF m = Len(calls) THEN dev ELSE calls[m + 1].pre

\* None of the five bits set_raw clears is set in d.
IsRaw(d) ==
    /\ \A b \in {ICANON, ECHO, ISIG} : ~HasBit(d.c_lflag, b)
    /\ ~HasBit(d.c_iflag, IXON)
    /\ ~HasBit(d.c_oflag, OPOST)

\* The run is n >= 1 set_raw calls, returning p1..pn, followed by set_term
\* calls that each apply one of p1..pn, on a working terminal.
NestedSessions ==
    LET n == LeadingRaws
    IN  /\ Working
        /\ n >= 1
        /\ \A m \in (n + 1)..Len(calls) :
              /\ calls[m].op = "set_term"
              /\ \E k \in 1..n : calls[m].arg = calls[k].ret

\* The points were applied in last-in-first-out order, all of them.
LifoComplete ==
    LET n == LeadingRaws
    IN  /\ Len(calls) = 2 * n
        /\ \A j \in 1..n : calls[n + j].arg = calls[n + 1 - j].ret

\* C17: after n set_raw calls returning p1..pn, applying pn .. p1 in that
\* order leaves the device as it was before the first set_raw; p2..pn all
\* hold the raw attributes, so the device is raw after every call until p1
\* is applied, and is left raw whenever the point applied last is not p1.
C17_NestedRawRestoresLifo ==
    NestedSessions =>
        LET n == LeadingRaws
            base == calls[1].pre
            raw == After(1)
            p1 == calls[1].ret
        IN  /\ IsRaw(raw)
            /\ \A k \in 2..n : SnapshotOf(calls[k].ret, raw)
            /\ \A m \in 1..Len(calls) :
                  (\A j \in (n + 1)..m : calls[j].arg # p1) =>
                      (SameAttrs(After(m), raw) /\ IsRaw(After(m)))
            /\ (Len(calls) > n /\ Last.arg # p1) => (SameAttrs(dev, raw) /\ IsRaw(dev))
            /\ (Len(calls) > n /\ Last.arg = p1) => SameAttrs(dev, base)
            /\ LifoComplete => SameAttrs(dev, base)

\* Three nested sessions on a cooked terminal were unwound in order.
C17_Witness ==
    /\ NestedSessions
    /\ LeadingRaws = 3
    /\ LifoComplete
    /\ ~IsRaw(dev)
    /\ ~SameAttrs(calls[6].pre, dev)

\* C18: set_raw is idempotent on the device: a second call in a row leaves
\* the attributes the first call left, and the restore-point it returns
\* holds exactly those attributes.
C18_SetRawIdempotent ==
    (Len(calls) >= 2 /\ Working /\ Prev.op = "set_raw" /\ Last.op = "set_raw") =>
        /\ SameAttrs(dev, Last.pre)
        /\ SnapshotOf(Last.ret, dev)

\* set_raw ran twice on a terminal that started cooked.
C18_Witness ==
    /\ Len(calls) >= 2 /\ Working
    /\ Prev.op = "set_raw" /\ Last.op = "set_raw"
    /\ ~IsRaw(Prev.pre)
    /\ IsRaw(dev)
    /\ dev.c_lflag # 0

\* The last two calls were set_term(t) and set_term of what it returned.
SetTermTwice ==
    /\ Len(calls) >= 2
    /\ Working
    /\ Prev.op = "set_term"
    /\ Last.op = "set_term"
    /\ Last.arg = Prev.ret

\* C19: set_term(t) returns a Terminal holding the device attributes from
\* before t was written, with cursor-visible true and alternate-buffer
\* false whatever flags t carries; so set_term(set_term(t)) leaves the
\* device as it was before the first call.
C19_SetTermSwaps ==
    /\ (Len(calls) >= 1 /\ Working /\ Last.op = "set_term") =>
          /\ SnapshotOf(Last.ret, Last.pre)
          /\ Last.ret.cursor_visable
          /\ ~Last.ret.alt_buffer
    /\ SetTermTwice => SameAttrs(dev, Prev.pre)

\* set_term(set_term(t)) ran with t differing from the device, so that the
\* first call changed the device, and with t's cursor flag cleared.
C19_Witness ==
    /\ SetTermTwice
    /\ ~Prev.arg.cursor_visable
    /\ ~SnapshotOf(Prev.arg, Prev.pre)
    /\ ~SameAttrs(Last.pre, Prev.pre)
    /\ ~SnapshotOf(Prev.ret, Last.pre)

\* The flag groups set_flags takes, and the termios field each is stored in.
Groups == {"lflags", "iflags", "oflags", "cflags"}

FieldOf(g) ==
    CASE g = "lflags" -> "c_lflag"
      [] g = "iflags" -> "c_iflag"
      [] g = "oflags" -> "c_oflag"
      [] g = "cflags" -> "c_cflag"

\* The groups thread i passed as Some(_).
Supplied(i) == { g \in Groups : thr[i].args[g].some }

\* Both threads have returned from set_flags, each having supplied one
\* group, and the two groups differ.
TwoSingleGroupCalls ==
    /\ Working
    /\ \A i \in Threads : thr[i].pc = "done" /\ Cardinality(Supplied(i)) = 1
    /\ \A i, j \in Threads : i # j => Supplied(i) # Supplied(j)

\* Thread i wrote first and thread j wrote last.
WroteInOrder(i, j) == i # j /\ i \in thr[j].write_after

\* Thread j's tcgetattr came after thread i's call had returned.
Serialized(i, j) == i \in thr[j].read_after

\* Thread i's group holds, on the device, the value i supplied.
InPlace(i) == \A g \in Supplied(i) : dev[FieldOf(g)] = thr[i].args[g].v

\* Thread i's group holds, on the device, the value i read before updating it.
Lost(i) == \A g \in Supplied(i) : dev[FieldOf(g)] = thr[i].t[FieldOf(g)]

\* C20: set_flags is a non-atomic read-modify-write. Two threads each
\* supplying a different single flag group: when the calls are serialized,
\* in either order, both supplied values are in place at the end; when both
\* threads read before either writes, the device ends with the later
\* writer's value only and the earlier writer's group is back at the value
\* it had before the calls.
C20_ConcurrentSetFlagsLosesUpdate ==
    TwoSingleGroupCalls =>
        \A i, j \in Threads :
            WroteInOrder(i, j) =>
                /\ InPlace(j)
                /\ Serialized(i, j) => InPlace(i)
                /\ ~Serialized(i, j) => Lost(i) /\ thr[i].t = thr[j].t

\* Both threads read, then both wrote, and the first writer's supplied
\* value, which differed from what the device held, is not on the device.
C20_Witness ==
    /\ TwoSingleGroupCalls
    /\ \E i, j \in Threads :
          /\ WroteInOrder(i, j)
          /\ ~Serialized(i, j)
          /\ InPlace(j)
          /\ ~InPlace(i)
          /\ \E g \in Supplied(j) : thr[j].t[FieldOf(g)] # thr[j].args[g].v

====
